---- MODULE Spec2Model ----
(***************************************************************************)
(* The PDF viewer skeleton: pdf_viewer/main.py (the bootstrap) and         *)
(* pdf_viewer/ui/main_window.py (MainWindow).  One action per statement of  *)
(* the program, plus the events the toolkit's event loop dispatches while   *)
(* app.exec() runs.  pc holds "<function>:<line>" of the next statement.    *)
(***************************************************************************)
EXTENDS Naturals, Sequences, FiniteSets

VARIABLES
    cwd,            \* the process's working directory (absolute, components)
    file,           \* __file__ of main.py, as the interpreter was given it
    files,          \* the regular files that exist (absolute paths)
    pc,             \* the next statement
    app,            \* main.py:7  the QApplication object
    quitPosted,     \* the event loop has been told to quit
    project_root,   \* main.py:8  main()'s local
    arg_root,       \* main_window.py:9  __init__'s parameter
    self,           \* the QMainWindow object exists
    self_root,      \* self.project_root
    windowTitle,    \* QWidget.windowTitle()
    minimumSize,    \* QWidget.minimumSize(), <<width, height>>
    windowState,    \* QWidget.windowState(), a set of flags
    visible,        \* QWidget.isVisible()
    toolBars,       \* the toolbars installed in the window, in order
    toolbar,        \* setup_toolbar's QToolBar object
    icon_path,      \* setup_toolbar's local
    my_action,      \* setup_toolbar's local
    setupDone,      \* the setup steps that have returned, in order
    dispatched      \* the user events the event loop has dispatched, in order

inputs  == <<cwd, file, files>>
locals  == <<project_root, arg_root, icon_path, my_action>>
window  == <<self, self_root, windowTitle, minimumSize, windowState, visible, toolBars, toolbar>>
loop    == <<app, quitPosted, dispatched>>
vars    == <<inputs, locals, window, loop, pc, setupDone>>

----------------------------------------------------------------------------
(* Bounds of the model *)

MaxEvents == 3

----------------------------------------------------------------------------
(* Paths.  A path is [abs, parts]; an absolute directory is its parts.      *)

None == "none"

\* A path variable that has not been assigned yet.
Unset == <<"<unset>">>

Rel(parts) == [abs |-> FALSE, parts |-> parts]
Abs(parts) == [abs |-> TRUE, parts |-> parts]

\* The places main.py is installed at, and the directories Python is started in.
ScriptPaths == { <<"srv", "pdf_viewer", "main.py">>, <<"opt", "main.py">> }
Cwds == { <<>>, <<"srv">>, <<"srv", "pdf_viewer">>, <<"opt">> }
Spellings ==
    { Abs(s) : s \in ScriptPaths } \cup
    { Rel(<<"main.py">>), Rel(<<".", "main.py">>), Rel(<<"pdf_viewer", "main.py">>),
      Rel(<<"..", "opt", "main.py">>), Rel(<<"srv", "pdf_viewer", "main.py">>),
      Rel(<<"pdf_viewer", "..", "pdf_viewer", "main.py">>) }

\* The file system's own lookup: walk the components from a directory.
RECURSIVE Walk(_, _)
Walk(dir, parts) ==
    IF parts = <<>> THEN dir
    ELSE LET c == Head(parts) IN
         IF c = "." THEN Walk(dir, Tail(parts))
         ELSE IF c = ".."
              THEN Walk(IF dir = <<>> THEN dir ELSE SubSeq(dir, 1, Len(dir) - 1), Tail(parts))
              ELSE Walk(Append(dir, c), Tail(parts))

Resolve(dir, p) == Walk(IF p.abs THEN <<>> ELSE dir, p.parts)

\* os.path.normpath on the components of an absolute path: "." is skipped,
\* ".." pops the last component kept and is dropped at the root.
RECURSIVE normpath(_, _)
normpath(new_comps, comps) ==
    IF comps = <<>> THEN new_comps
    ELSE LET comp == Head(comps) IN
         IF comp = "." THEN normpath(new_comps, Tail(comps))
         ELSE IF comp # ".." THEN normpath(Append(new_comps, comp), Tail(comps))
         ELSE IF new_comps # <<>>
              THEN normpath(SubSeq(new_comps, 1, Len(new_comps) - 1), Tail(comps))
              ELSE normpath(new_comps, Tail(comps))

\* Faulty variant: the working directory is not joined to a relative path.
abspath_NoJoin(p) == normpath(<<>>, p.parts)

\* os.path.abspath: join the working directory to a relative path, normalise.
abspath(p) ==
    LET joined == IF p.abs THEN p.parts ELSE cwd \o p.parts
    IN  normpath(<<>>, joined)

\* os.path.dirname of an absolute path.
dirname(parts) == IF parts = <<>> THEN parts ELSE SubSeq(parts, 1, Len(parts) - 1)

\* os.path.join(root, 'assets', 'smile.png')
join(root, a, b) == root \o <<a, b>>

AssetPaths == { join(dirname(s), "assets", "smile.png") : s \in ScriptPaths }

----------------------------------------------------------------------------
(* The toolkit's objects *)

WindowTitle == "SystmOne PDF Manager"
MinWidth  == 910
MinHeight == 540
IconSize  == 16

\* Faulty variant: an icon whose file does not exist raises.
QIcon_Raises(path) == [raised |-> path \notin files, hasPixmap |-> path \in files]

\* QIcon(fileName): never raises; the file is read on demand, and an icon whose
\* file does not exist renders no pixmap.
QIcon(path) == [raised |-> FALSE, hasPixmap |-> path \in files]

\* QAction(icon, text, parent)
QAction(icon, text) == [kind |-> "action", text |-> text, hasPixmap |-> icon.hasPixmap]

\* The action QToolBar.addSeparator() creates.
Separator == [kind |-> "separator", text |-> "", hasPixmap |-> FALSE]

\* QToolBar(title)
QToolBar(title) == [title |-> title, iconSize |-> <<0, 0>>, items |-> <<>>]

\* Locals of setup_toolbar before their assignment.
NoToolBar == [title |-> "", iconSize |-> <<0, 0>>, items |-> <<>>]
NoAction  == [kind |-> "none", text |-> "", hasPixmap |-> FALSE]

\* QWidget.showMaximized(): the state becomes maximized, the widget visible.
showMaximized(state) == (state \ {"Minimized", "FullScreen"}) \cup {"Maximized"}

\* The statements in the order the interpreter runs them.
Statements ==
    << "main:7", "main:8", "main:9", "__init__:10", "__init__:12", "__init__:13",
       "__init__:14", "__init__:15", "__init__:17", "setup_toolbar:25",
       "setup_toolbar:26", "setup_toolbar:27", "setup_toolbar:28", "setup_toolbar:29",
       "setup_toolbar:30", "setup_toolbar:31", "setup_ui:21", "setup_ui:22",
       "main:10", "main:11", "main:return", "exited" >>

\* Control has run the statement at label l.
Past(l) ==
    \E i, j \in DOMAIN Statements : Statements[i] = l /\ Statements[j] = pc /\ i < j

\* MainWindow(project_root) has returned.
Constructed == Past("setup_ui:22")

----------------------------------------------------------------------------
(* The state at process start: python main.py, in some directory, with some  *)
(* of the icon files present.                                               *)

Init ==
    /\ cwd \in Cwds
    /\ file \in Spellings
    /\ Resolve(cwd, file) \in ScriptPaths
    /\ files \in SUBSET AssetPaths
    /\ pc = "main:7"
    /\ app = None
    /\ quitPosted = FALSE
    /\ project_root = Unset
    /\ arg_root = Unset
    /\ self = FALSE
    /\ self_root = Unset
    /\ windowTitle = ""
    /\ minimumSize = <<0, 0>>
    /\ windowState = {}
    /\ visible = FALSE
    /\ toolBars = <<>>
    /\ toolbar = NoToolBar
    /\ icon_path = Unset
    /\ my_action = NoAction
    /\ setupDone = <<>>
    /\ dispatched = <<>>

----------------------------------------------------------------------------
(* main.py: main() *)

\* 7: app = QApplication(sys.argv)
main_QApplication ==
    /\ pc = "main:7"
    /\ app' = "created"
    /\ pc' = "main:8"
    /\ UNCHANGED <<inputs, locals, window, quitPosted, dispatched, setupDone>>

\* 8: project_root = os.path.dirname(os.path.abspath(__file__))
main_project_root ==
    /\ pc = "main:8"
    /\ project_root' = dirname(abspath(file))
    /\ pc' = "main:9"
    /\ UNCHANGED <<inputs, arg_root, icon_path, my_action, window, loop, setupDone>>

\* 9: window = MainWindow(project_root): the call binds __init__'s parameter.
main_MainWindow ==
    /\ pc = "main:9"
    /\ arg_root' = project_root
    /\ pc' = "__init__:10"
    /\ UNCHANGED <<inputs, project_root, icon_path, my_action, window, loop, setupDone>>

\* 10: window.show().  On a desktop platform (default window state: normal)
\* QWidget.show() is setVisible(true): the widget is made visible, and the
\* window state set before is kept.
main_show ==
    /\ pc = "main:10"
    /\ visible' = TRUE
    /\ pc' = "main:11"
    /\ UNCHANGED <<inputs, locals, self, self_root, windowTitle, minimumSize, windowState,
                   toolBars, toolbar, loop, setupDone>>

----------------------------------------------------------------------------
(* main_window.py: MainWindow *)

\* 10: super().__init__(): a hidden QMainWindow with no title and no toolbars.
init_super ==
    /\ pc = "__init__:10"
    /\ self' = TRUE
    /\ windowTitle' = ""
    /\ minimumSize' = <<0, 0>>
    /\ windowState' = {}
    /\ visible' = FALSE
    /\ toolBars' = <<>>
    /\ pc' = "__init__:12"
    /\ UNCHANGED <<inputs, locals, self_root, toolbar, loop, setupDone>>

\* 12: self.project_root = project_root
init_project_root ==
    /\ pc = "__init__:12"
    /\ self_root' = arg_root
    /\ pc' = "__init__:13"
    /\ UNCHANGED <<inputs, locals, self, windowTitle, minimumSize, windowState, visible,
                   toolBars, toolbar, loop, setupDone>>

\* Faulty variant: another title.
init_setWindowTitle_Other ==
    /\ pc = "__init__:13"
    /\ windowTitle' = "PDF Manager"
    /\ pc' = "__init__:14"
    /\ UNCHANGED <<inputs, locals, self, self_root, minimumSize, windowState, visible,
                   toolBars, toolbar, loop, setupDone>>

\* 13: self.setWindowTitle("SystmOne PDF Manager")
init_setWindowTitle ==
    /\ pc = "__init__:13"
    /\ windowTitle' = WindowTitle
    /\ pc' = "__init__:14"
    /\ UNCHANGED <<inputs, locals, self, self_root, minimumSize, windowState, visible,
                   toolBars, toolbar, loop, setupDone>>

\* Faulty variant: width and height swapped.
init_setMinimumSize_Swapped ==
    /\ pc = "__init__:14"
    /\ minimumSize' = <<MinHeight, MinWidth>>
    /\ pc' = "__init__:15"
    /\ UNCHANGED <<inputs, locals, self, self_root, windowTitle, windowState, visible,
                   toolBars, toolbar, loop, setupDone>>

\* 14: self.setMinimumSize(910, 540)
init_setMinimumSize ==
    /\ pc = "__init__:14"
    /\ minimumSize' = <<MinWidth, MinHeight>>
    /\ pc' = "__init__:15"
    /\ UNCHANGED <<inputs, locals, self, self_root, windowTitle, windowState, visible,
                   toolBars, toolbar, loop, setupDone>>

\* Faulty variant: self.show() in place of self.showMaximized().
init_showMaximized_Show ==
    /\ pc = "__init__:15"
    /\ visible' = TRUE
    /\ pc' = "__init__:17"
    /\ UNCHANGED <<inputs, locals, self, self_root, windowTitle, minimumSize, windowState,
                   toolBars, toolbar, loop, setupDone>>

\* 15: self.showMaximized()
init_showMaximized ==
    /\ pc = "__init__:15"
    /\ windowState' = showMaximized(windowState)
    /\ visible' = TRUE
    /\ pc' = "__init__:17"
    /\ UNCHANGED <<inputs, locals, self, self_root, windowTitle, minimumSize,
                   toolBars, toolbar, loop, setupDone>>

\* Faulty variant: setup_ui starts with setup_thumbnail_area.
init_setup_ui_SkipsToolbar ==
    /\ pc = "__init__:17"
    /\ pc' = "setup_ui:21"
    /\ UNCHANGED <<inputs, locals, window, loop, setupDone>>

\* 17: self.setup_ui(), and 20: self.setup_toolbar()
init_setup_ui ==
    /\ pc = "__init__:17"
    /\ pc' = "setup_toolbar:25"
    /\ UNCHANGED <<inputs, locals, window, loop, setupDone>>

\* 25: icon_path = os.path.join(self.project_root, 'assets', 'smile.png')
setup_toolbar_icon_path ==
    /\ pc = "setup_toolbar:25"
    /\ icon_path' = join(self_root, "assets", "smile.png")
    /\ pc' = "setup_toolbar:26"
    /\ UNCHANGED <<inputs, project_root, arg_root, my_action, window, loop, setupDone>>

\* 26: toolbar = QToolBar('Main Toolbar')
setup_toolbar_QToolBar ==
    /\ pc = "setup_toolbar:26"
    /\ toolbar' = QToolBar("Main Toolbar")
    /\ pc' = "setup_toolbar:27"
    /\ UNCHANGED <<inputs, locals, self, self_root, windowTitle, minimumSize, windowState,
                   visible, toolBars, loop, setupDone>>

\* 27: self.addToolBar(toolbar)
setup_toolbar_addToolBar ==
    /\ pc = "setup_toolbar:27"
    /\ toolBars' = Append(toolBars, toolbar.title)
    /\ pc' = "setup_toolbar:28"
    /\ UNCHANGED <<inputs, locals, self, self_root, windowTitle, minimumSize, windowState,
                   visible, toolbar, loop, setupDone>>

\* 28: toolbar.setIconSize(QSize(16, 16))
setup_toolbar_setIconSize ==
    /\ pc = "setup_toolbar:28"
    /\ toolbar' = [toolbar EXCEPT !.iconSize = <<IconSize, IconSize>>]
    /\ pc' = "setup_toolbar:29"
    /\ UNCHANGED <<inputs, locals, self, self_root, windowTitle, minimumSize, windowState,
                   visible, toolBars, loop, setupDone>>

\* 29: my_action = QAction(QIcon(icon_path), 'Smile...', self).  An exception
\* raised here is caught nowhere: it unwinds setup_toolbar, setup_ui, __init__
\* and main, and the process ends.
setup_toolbar_QAction ==
    /\ pc = "setup_toolbar:29"
    /\ LET icon == QIcon(icon_path) IN
         IF icon.raised
         THEN /\ pc' = "raised"
              /\ UNCHANGED my_action
         ELSE /\ my_action' = QAction(icon, "Smile...")
              /\ pc' = "setup_toolbar:30"
    /\ UNCHANGED <<inputs, project_root, arg_root, icon_path, window, loop, setupDone>>

\* 30: toolbar.addAction(my_action)
setup_toolbar_addAction ==
    /\ pc = "setup_toolbar:30"
    /\ toolbar' = [toolbar EXCEPT !.items = Append(@, my_action)]
    /\ pc' = "setup_toolbar:31"
    /\ UNCHANGED <<inputs, locals, self, self_root, windowTitle, minimumSize, windowState,
                   visible, toolBars, loop, setupDone>>

\* 31: toolbar.addSeparator(); setup_toolbar returns to setup_ui, line 21.
setup_toolbar_addSeparator ==
    /\ pc = "setup_toolbar:31"
    /\ toolbar' = [toolbar EXCEPT !.items = Append(@, Separator)]
    /\ setupDone' = Append(setupDone, "setup_toolbar")
    /\ pc' = "setup_ui:21"
    /\ UNCHANGED <<inputs, locals, self, self_root, windowTitle, minimumSize, windowState,
                   visible, toolBars, loop>>

\* Faulty variant: setup_thumbnail_area adds an action of its own to the toolbar.
setup_thumbnail_area_AddsAction ==
    /\ pc = "setup_ui:21"
    /\ toolbar' = [toolbar EXCEPT !.items = Append(@, QAction(QIcon(icon_path), "Thumbnails"))]
    /\ setupDone' = Append(setupDone, "setup_thumbnail_area")
    /\ pc' = "setup_ui:22"
    /\ UNCHANGED <<inputs, locals, self, self_root, windowTitle, minimumSize, windowState,
                   visible, toolBars, loop>>

\* 21: self.setup_thumbnail_area(), whose body is pass (34)
setup_thumbnail_area ==
    /\ pc = "setup_ui:21"
    /\ setupDone' = Append(setupDone, "setup_thumbnail_area")
    /\ pc' = "setup_ui:22"
    /\ UNCHANGED <<inputs, locals, window, loop>>

\* 22: self.setup_preview_pane(), whose body is pass (37); setup_ui and
\* __init__ return, and main goes on at line 10.
setup_preview_pane ==
    /\ pc = "setup_ui:22"
    /\ setupDone' = Append(setupDone, "setup_preview_pane")
    /\ pc' = "main:10"
    /\ UNCHANGED <<inputs, locals, window, loop>>

----------------------------------------------------------------------------
(* main.py:11  app.exec(): the toolkit's event loop.  It dispatches the       *)
(* user's events to the visible window until it is told to quit.            *)

Dispatching == pc = "main:11" /\ visible /\ ~quitPosted

\* Faulty variant: a slot connected to triggered retitles the window.
ActivateSmile_Connected ==
    /\ pc = "main:11" /\ visible /\ ~quitPosted
    /\ Len(dispatched) < MaxEvents
    /\ "Minimized" \notin windowState
    /\ windowTitle' = "Smile!"
    /\ dispatched' = Append(dispatched, "smile")
    /\ UNCHANGED <<inputs, locals, self, self_root, minimumSize, windowState, visible,
                   toolBars, toolbar, app, quitPosted, pc, setupDone>>

\* The user clicks the toolbar's action: triggered is emitted, and every
\* connected slot runs.  setup_toolbar connects none.
ActivateSmile ==
    /\ Dispatching
    /\ Len(dispatched) < MaxEvents
    /\ "Minimized" \notin windowState
    /\ \E t \in DOMAIN toolBars : \E i \in DOMAIN toolbar.items :
            toolBars[t] = toolbar.title /\ toolbar.items[i] = my_action
    /\ dispatched' = Append(dispatched, "smile")
    /\ UNCHANGED <<inputs, locals, window, app, quitPosted, pc, setupDone>>

\* The window state after the user's restore, maximize, minimize or
\* un-minimize (the title bar's buttons, the task bar).
UserWindowState(state, ev) ==
    CASE ev = "restore"    -> state \ {"Maximized"}
      [] ev = "maximize"   -> state \cup {"Maximized"}
      [] ev = "minimize"   -> state \cup {"Minimized"}
      [] ev = "unminimize" -> state \ {"Minimized"}

\* The user changes the window's display state; MainWindow overrides no
\* changeEvent, so the toolkit applies it.
ChangeWindowState ==
    /\ Dispatching
    /\ Len(dispatched) < MaxEvents
    /\ \E ev \in {"restore", "maximize", "minimize", "unminimize"} :
         /\ UserWindowState(windowState, ev) # windowState
         /\ windowState' = UserWindowState(windowState, ev)
         /\ dispatched' = Append(dispatched, ev)
    /\ UNCHANGED <<inputs, locals, self, self_root, windowTitle, minimumSize, visible,
                   toolBars, toolbar, app, quitPosted, pc, setupDone>>

\* The user closes the window; MainWindow overrides no closeEvent, so the
\* window is hidden, and as it was the last one the application quits.
CloseWindow ==
    /\ Dispatching
    /\ visible' = FALSE
    /\ quitPosted' = TRUE
    /\ dispatched' = Append(dispatched, "close")
    /\ UNCHANGED <<inputs, locals, self, self_root, windowTitle, minimumSize, windowState,
                   toolBars, toolbar, app, pc, setupDone>>

\* Faulty variant: app.exec() returns without waiting for the quit.
main_exec_return_NoWait ==
    /\ pc = "main:11"
    /\ app' = "finished"
    /\ pc' = "main:return"
    /\ UNCHANGED <<inputs, locals, window, quitPosted, dispatched, setupDone>>

\* app.exec() returns once the loop has been told to quit.
main_exec_return ==
    /\ pc = "main:11"
    /\ quitPosted
    /\ app' = "finished"
    /\ pc' = "main:return"
    /\ UNCHANGED <<inputs, locals, window, quitPosted, dispatched, setupDone>>

\* main() returns (line 14) and the process ends.
main_return ==
    /\ pc = "main:return"
    /\ pc' = "exited"
    /\ UNCHANGED <<inputs, locals, window, loop, setupDone>>

----------------------------------------------------------------------------

\* The statements the interpreter runs.
Program ==
    \/ main_QApplication \/ main_project_root \/ main_MainWindow \/ main_show
    \/ init_super \/ init_project_root \/ init_setWindowTitle \/ init_setMinimumSize
    \/ init_showMaximized \/ init_setup_ui
    \/ setup_toolbar_icon_path \/ setup_toolbar_QToolBar \/ setup_toolbar_addToolBar
    \/ setup_toolbar_setIconSize \/ setup_toolbar_QAction \/ setup_toolbar_addAction
    \/ setup_toolbar_addSeparator \/ setup_thumbnail_area \/ setup_preview_pane
    \/ main_exec_return \/ main_return

\* The user's events.
User == ActivateSmile \/ ChangeWindowState \/ CloseWindow

Next == Program \/ User

Spec == Init /\ [][Next]_vars

\* The interpreter always runs the next statement; the user owes nothing.
FairSpec == Spec /\ WF_vars(Program)

----------------------------------------------------------------------------
(* Properties *)

Range(q) == { q[i] : i \in DOMAIN q }

\* The directory that holds the entry script, by the file system's lookup.
ScriptDir == dirname(Resolve(cwd, file))

\* The icon file of the window's root does not exist.
IconMissing == join(ScriptDir, "assets", "smile.png") \notin files

SmileAction(a) == a.kind = "action" /\ a.text = "Smile..."

\* The window's one toolbar holds the action.
ToolbarInstalled ==
    /\ toolBars = <<toolbar.title>>
    /\ \E i \in DOMAIN toolbar.items : SmileAction(toolbar.items[i])

\* The toolbar's items before its first separator.
BeforeSeparator(items) ==
    LET seps == { i \in DOMAIN items : items[i].kind = "separator" }
        n == IF seps = {} THEN Len(items)
             ELSE (CHOOSE i \in seps : \A j \in seps : i <= j) - 1
    IN  SubSeq(items, 1, n)

WindowStateEvents == {"restore", "maximize", "minimize", "unminimize"}

FullSetup == <<"setup_toolbar", "setup_thumbnail_area", "setup_preview_pane">>

\* C1: with no assets/smile.png under the root, construction raises nothing,
\* and the window gets to the shown state: constructed, its toolbar and
\* 'Smile...' action installed, the bootstrap's show() run.
C1_MissingIconNotFatal ==
    /\ [](IconMissing => pc # "raised")
    /\ (IconMissing /\ pc = "main:9")
          ~> (Past("main:10") /\ visible /\ ToolbarInstalled)

C1_Witness ==
    /\ IconMissing
    /\ pc = "main:11"
    /\ visible
    /\ ToolbarInstalled
    /\ ~my_action.hasPixmap

\* C2: once the window is constructed its toolbar holds exactly one action
\* before any separator, with text 'Smile...', and a separator right after
\* it; at no step is there a second action, or a separator ahead of it.
C2_OneActionThenSeparator ==
    /\ Constructed =>
          /\ toolBars = <<"Main Toolbar">>
          /\ Len(BeforeSeparator(toolbar.items)) = 1
          /\ SmileAction(toolbar.items[1])
          /\ Len(toolbar.items) >= 2
          /\ toolbar.items[2].kind = "separator"
    /\ Cardinality({ i \in DOMAIN toolbar.items : toolbar.items[i].kind = "action" }) <= 1
    /\ toolbar.items # <<>> => toolbar.items[1].kind = "action"

C2_Witness ==
    /\ pc = "main:11"
    /\ toolbar.items = <<my_action, Separator>>
    /\ SmileAction(my_action)
    /\ "smile" \in Range(dispatched)

\* C3 as stated: from the end of construction until the user closes the
\* window, the window reports the maximized state.
C3_MaximizedUntilClosed ==
    (Constructed /\ "close" \notin Range(dispatched)) => "Maximized" \in windowState

\* C3 as amended: from the end of construction on, show() included, the window
\* reports the maximized state for as long as the user has not changed the
\* window's display state.
C3_MaximizedUntilUserChange ==
    (Constructed /\ Range(dispatched) \cap WindowStateEvents = {})
        => "Maximized" \in windowState

C3_Witness ==
    /\ pc = "main:11"
    /\ Past("main:10")
    /\ dispatched = <<"smile">>
    /\ windowState = {"Maximized"}

\* C4: a step that activates the 'Smile...' action changes neither the title,
\* the minimum size, the display state, the toolbar nor project_root.
C4_SmileHasNoEffect ==
    [][dispatched' = Append(dispatched, "smile")
         => UNCHANGED <<windowTitle, minimumSize, windowState, visible, toolBars,
                        toolbar, self_root>>]_vars

C4_Witness ==
    /\ Len(dispatched) >= 3
    /\ dispatched[1] = "smile"
    /\ dispatched[2] = "restore"
    /\ dispatched[3] = "smile"

\* C5: main() has not returned while the window is open, and once the user
\* has closed the window the event loop exits and main() returns.
C5_BlocksUntilClosed ==
    /\ [](Past("main:11") => (~visible /\ "close" \in Range(dispatched)))
    /\ ("close" \in Range(dispatched)) ~> (pc = "exited")

C5_Witness ==
    /\ pc = "exited"
    /\ "close" \in Range(dispatched)
    /\ Len(dispatched) > 1

\* C6: the setup steps return in the order setup_toolbar,
\* setup_thumbnail_area, setup_preview_pane, inside the construction the
\* bootstrap starts; the event loop is entered, and a user event dispatched,
\* only when all three have.
C6_StartupOrder ==
    /\ \E n \in 0..Len(FullSetup) : setupDone = SubSeq(FullSetup, 1, n)
    /\ setupDone # <<>> => (self /\ Past("main:9"))
    /\ (Past("main:10") \/ dispatched # <<>>) => setupDone = FullSetup
    /\ pc = "setup_ui:21" => setupDone = SubSeq(FullSetup, 1, 1)
    /\ pc = "setup_ui:22" => setupDone = SubSeq(FullSetup, 1, 2)

C6_Witness ==
    /\ setupDone = FullSetup
    /\ dispatched # <<>>
    /\ pc = "main:11"

\* C7: from the end of construction on the title is "SystmOne PDF Manager".
C7_Title == Constructed => windowTitle = "SystmOne PDF Manager"

C7_Witness ==
    /\ pc = "main:11"
    /\ windowTitle = "SystmOne PDF Manager"
    /\ Len(dispatched) >= 2
    /\ dispatched[1] = "smile"
    /\ dispatched[2] = "minimize"

\* C8: from the end of construction on the minimum size is at least 910 wide
\* and 540 high, maximized or not.
C8_MinimumSize == Constructed => (minimumSize[1] >= 910 /\ minimumSize[2] >= 540)

C8_Witness ==
    /\ Constructed
    /\ "Maximized" \in windowState
    /\ visible
    /\ minimumSize = <<910, 540>>

\* C9: the window is shown only once its construction, the three setup steps
\* included, has finished, and after it has been closed it is not shown.
C9_ShownAfterConstruction ==
    /\ visible => Constructed
    /\ "close" \in Range(dispatched) => ~visible

\* C10: from its assignment in the constructor on, project_root is the
\* directory that holds the entry script, the value the bootstrap passed; it
\* never changes; and the icon path is built from it.
C10_ProjectRoot ==
    /\ [](Past("__init__:12") =>
             /\ self_root = ScriptDir
             /\ self_root = project_root)
    /\ [](Past("setup_toolbar:25") => icon_path = self_root \o <<"assets", "smile.png">>)
    /\ [][self_root # Unset => self_root' = self_root]_vars

C10_Witness ==
    /\ pc = "exited"
    /\ ~file.abs
    /\ ".." \in Range(file.parts)
    /\ self_root = <<"opt">>

====
